---- MODULE Spec2Model ----
(***************************************************************************)
(* The simulation engine of Multi-Agent-Surveillance: World.tick() and the *)
(* checks it runs (src/simulation/world.py), driven by arbitrary agent     *)
(* strategies (src/ai/agents.py).                                          *)
(*                                                                         *)
(* Lengths are fixed-point integers, Unit = 100 per map unit, so that the  *)
(* 0.01 of the bounds clamp, the 0.5 capture/target radius and the agent   *)
(* half width are all whole numbers.  Counters that the code keeps as      *)
(* floats (ticks_in_target, ...) only ever hold whole values.              *)
(***************************************************************************)
EXTENDS Integers, Sequences, FiniteSets, TLC

VARIABLES
    walls,                  \* Map.walls: the set of wall cells <<x, y>>
    agents,                 \* World.agents: AgentID (1..n, insertion order) -> class of the agent
    location,               \* Agent.location, <<x, y>> in 1/Unit map units
    heading,                \* Agent.heading, in degrees
    visible_agents,         \* tick(): the list built for the agent.tick() call under way
    has_collided,           \* Agent._has_collided
    message_queue_in,       \* Agent._message_queue_in
    noises,                 \* World.noises
    old_noises,             \* World.old_noises
    time_ticks,             \* World.time_ticks
    is_captured,            \* IntruderAgent.is_captured
    reached_target,         \* IntruderAgent.reached_target
    ticks_in_target,        \* IntruderAgent.ticks_in_target
    ticks_since_target,     \* IntruderAgent.ticks_since_target
    times_visited_target,   \* IntruderAgent.times_visited_target
    pc,                     \* where World.tick() is: "idle" between calls, "new" before setup()
    idx,                    \* the agent the loop of tick() is at
    result,                 \* what the last tick() returned
    tick_no,                \* history: number of tick() calls started
    continued,              \* history: number of tick() calls that returned False
    captured_calls,         \* history: on_captured() calls, per agent
    reached_calls,          \* history: on_reached_target() calls, per agent
    delivered,              \* history: on_message() calls
    inside_run,             \* history: consecutive target checks inside the radius
    outside_run,            \* history: consecutive target checks outside since the last exit
    entry,                  \* history: the entry the last target check saw, if any
    sent,                   \* history: number of messages sent
    emitted,                \* history: the add_noise() calls, with caller (0: the world) and tick
    heard,                  \* history: the lists on_noise() got in the tick under way, per agent
    is_editing,             \* GUI.is_editing
    viewport,               \* GUI.viewport: left, right, bottom, top in 1/Unit map units
    handled,                \* history: the last window event the GUI handled, and their number
    saved,                  \* saves/<name>.agents.json, once written
    loaded,                 \* what the last World.from_file call gave
    tick_start              \* history: where the agents were when the tick under way began

vars == <<walls, agents, location, heading, visible_agents, has_collided,
          message_queue_in, noises,
          old_noises, time_ticks, is_captured, reached_target, ticks_in_target,
          ticks_since_target, times_visited_target, pc, idx, result, tick_no,
          continued, captured_calls, reached_calls, delivered, inside_run,
          outside_run, entry, sent, emitted, heard, is_editing, viewport, handled,
          saved, loaded, tick_start>>

\* what only the target check writes of the history
dwell_history == <<inside_run, outside_run, entry>>

\* the save file and what was loaded from it
files == <<saved, loaded>>

\* what the GUI owns
gui == <<is_editing, viewport, handled>>

\* what the noise phases write of the history
noise_history == <<emitted, heard>>

----------------------------------------------------------------------------
(* Bounds of the model *)

MapW == 3
MapH == 3
MaxTicks == 3
DwellTicks == 63
CollideTicks == 2
MaxMsgs == 2
MaxNoise == 1
CallCap == 3
MaxAgents == 3
MaxGuiEvents == 3
NoiseTicks == 3
NoiseCap == 2
VisionTicks == 2

(* Program constants *)

Unit == 100
TICK_RATE == 20
DwellSeconds == 3
CaptureRadius == 50
TargetRadius == 50
CornerRadius == 50
ClampMargin == 1
NearField == 150
SCREEN_WIDTH == 1280
SCREEN_HEIGHT == 960

----------------------------------------------------------------------------
(* Geometry *)

Min(a, b) == IF a < b THEN a ELSE b

Floor(v) == v \div Unit

Sq(v) == v * v

Dist2(p, q) == Sq(p[1] - q[1]) + Sq(p[2] - q[2])

RECURSIVE ISqrtIn(_, _, _)
ISqrtIn(n, lo, hi) ==
    IF lo >= hi THEN lo
    ELSE LET mid == (lo + hi + 1) \div 2
         IN  IF mid * mid <= n THEN ISqrtIn(n, mid, hi) ELSE ISqrtIn(n, lo, mid - 1)

ISqrt(n) == ISqrtIn(n, 0, 40000)

RoundDiv(a, b) == (2 * a + b) \div (2 * b)

\* Vector2.as_length: d rescaled to length len, each coordinate rounded to
\* 1/Unit; on a vector of length 0 it raises (CornerSnaps stops there)
AsLength(d, len) ==
    LET s == ISqrt(Dist2(d, <<0, 0>>) * Unit * Unit)
    IN  <<RoundDiv(d[1] * len * Unit, s), RoundDiv(d[2] * len * Unit, s)>>

----------------------------------------------------------------------------
(* Map (simulation/environment.py), as far as the engine uses it *)

Cells == (0 .. MapW - 1) \X (0 .. MapH - 1)

\* Map.is_wall(x, y): the wall grid holds the cells of the map only
IsWall(w, x, y) == <<x, y>> \in w

----------------------------------------------------------------------------
(* World._collision_check, for one agent at l of collision width width *)

\* the quick bounds check
Clamp(l) ==
    LET x0 == IF l[1] < 0 THEN 0 ELSE l[1]
        y0 == IF l[2] < 0 THEN 0 ELSE l[2]
    IN  << IF x0 >= MapW * Unit THEN MapW * Unit - ClampMargin ELSE x0,
           IF y0 >= MapH * Unit THEN MapH * Unit - ClampMargin ELSE y0 >>

\* collision_point(x, y): is the cell of the point a wall
CollisionPoint(w, x, y) == IsWall(w, Floor(x), Floor(y))

\* the centre of the cell of a point, one coordinate
Centre(v) == Floor(v) * Unit + Unit \div 2

\* the push vector accumulated by the four edge probes around <<x, y>>
Push(w, x, y, h) ==
    << (IF CollisionPoint(w, x - h, y) THEN Centre(x - h) + (Unit \div 2 + h) - x ELSE 0)
       + (IF CollisionPoint(w, x + h, y) THEN Centre(x + h) - (Unit \div 2 + h) - x ELSE 0),
       (IF CollisionPoint(w, x, y - h) THEN Centre(y - h) + (Unit \div 2 + h) - y ELSE 0)
       + (IF CollisionPoint(w, x, y + h) THEN Centre(y + h) - (Unit \div 2 + h) - y ELSE 0) >>

EdgeHit(w, x, y, h) ==
    \/ CollisionPoint(w, x - h, y)
    \/ CollisionPoint(w, x + h, y)
    \/ CollisionPoint(w, x, y - h)
    \/ CollisionPoint(w, x, y + h)

\* the four corner probe points, in the order the code tries them: they are
\* taken around x, y as read before the push was applied
Corners(x, y, h) ==
    << <<x - h, y - h>>, <<x - h, y + h>>, <<x + h, y - h>>, <<x + h, y + h>> >>

\* circle_collision(px, py) with the agent now at cur: does it fire
CircleHits(w, cur, p, h) ==
    /\ IsWall(w, Floor(p[1]), Floor(p[2]))
    /\ Dist2(cur, <<Centre(p[1]), Centre(p[2])>>) < Sq(CornerRadius + h)

\* the four corner snaps, one after the other; st = [loc, hit, raised]
RECURSIVE CornerSnaps(_, _, _, _, _)
CornerSnaps(w, st, probes, k, h) ==
    IF k > Len(probes) \/ st.raised THEN st
    ELSE LET p == probes[k]
             c == <<Centre(p[1]), Centre(p[2])>>
             d == <<st.loc[1] - c[1], st.loc[2] - c[2]>>
         IN  IF ~CircleHits(w, st.loc, p, h) THEN CornerSnaps(w, st, probes, k + 1, h)
             ELSE IF d = <<0, 0>> THEN [st EXCEPT !.raised = TRUE]
             ELSE LET v == AsLength(d, CornerRadius + h)
                  IN  CornerSnaps(w, [loc |-> <<c[1] + v[1], c[2] + v[2]>>,
                                      hit |-> TRUE, raised |-> FALSE],
                                  probes, k + 1, h)

\* the body of the loop of _collision_check for one agent
Collide(w, l, width) ==
    LET h == width \div 2
        c == Clamp(l)
        x == c[1]
        y == c[2]
        push == Push(w, x, y, h)
        pushed == [loc |-> <<x + push[1], y + push[2]>>,
                   hit |-> EdgeHit(w, x, y, h), raised |-> FALSE]
    IN  CornerSnaps(w, pushed, Corners(x, y, h), 1, h)

----------------------------------------------------------------------------
(* Agents (simulation/agent.py), as far as the engine uses them *)

\* Agent._width, the diameter of the collision circle
AgentWidth == 90

\* Agent.view_range and Agent.view_angle (the half angle of the cone, degrees)
ViewRange == 200
ViewAngle == 45

\* IntruderAgent.target, the point an intruder has to reach
Target == <<150, 150>>

\* the strategy classes of ai/agents.py: where a class is defined, its
\* __name__, and which of GuardAgent and IntruderAgent it derives from
SimpleGuard == [module |-> "ai.agents", name |-> "SimpleGuard", base |-> "GuardAgent"]

PathfindingIntruder ==
    [module |-> "ai.agents", name |-> "PathfindingIntruder", base |-> "IntruderAgent"]

AgentIDs == 1 .. Len(agents)

\* World.guards and World.intruders, in the order of World.agents
Guards == {a \in AgentIDs : agents[a].base = "GuardAgent"}

Intruders == {a \in AgentIDs : agents[a].base = "IntruderAgent"}

\* one NoiseEvent and one Message
NoiseEvent(cell, t) == [location |-> cell, time |-> t]

Message(src, tgt, at) == [source |-> src, target |-> tgt, sent |-> at]

----------------------------------------------------------------------------
(* Vision: the inner loop of World.tick() *)

Abs(v) == IF v < 0 THEN 0 - v ELSE v

\* math.degrees(math.atan2(y, x)): exact on the axes and the diagonals, where
\* the angle is a multiple of 45; strictly between two of them it is a degree
\* strictly between them, which keeps every comparison of the deviation from
\* a heading that is a multiple of 45 with a view angle that is one
Atan2Deg(y, x) ==
    IF y = 0 THEN (IF x >= 0 THEN 0 ELSE 180)
    ELSE IF x = 0 THEN (IF y > 0 THEN 90 ELSE -90)
    ELSE IF Abs(x) = Abs(y)
         THEN (IF y > 0 THEN (IF x > 0 THEN 45 ELSE 135)
               ELSE (IF x > 0 THEN -45 ELSE -135))
    ELSE IF y > 0
         THEN (IF x > 0 THEN (IF Abs(y) < Abs(x) THEN 22 ELSE 67)
               ELSE (IF Abs(y) > Abs(x) THEN 112 ELSE 157))
    ELSE (IF x > 0 THEN (IF Abs(y) < Abs(x) THEN -22 ELSE -67)
          ELSE (IF Abs(y) > Abs(x) THEN -112 ELSE -157))

\* angle_diff, for d = other_agent.location - agent.location
AngleDiff(d, hd) == Abs(((0 - Atan2Deg(d[2], d[1]) + 90 - hd + 180) % 360) - 180)

\* the test with both comparisons strict
InViewStrict(from, hd, to) ==
    LET d == <<to[1] - from[1], to[2] - from[2]>>
        len2 == Dist2(to, from)
    IN  \/ len2 < Sq(ViewRange) /\ AngleDiff(d, hd) < ViewAngle
        \/ len2 < Sq(NearField)

\* (d.length <= agent.view_range and angle_diff <= agent.view_angle)
\* or d.length <= 1.5
InView(from, hd, to) ==
    LET d == <<to[1] - from[1], to[2] - from[2]>>
        len2 == Dist2(to, from)
    IN  \/ len2 <= Sq(ViewRange) /\ AngleDiff(d, hd) <= ViewAngle
        \/ len2 <= Sq(NearField)

\* visible_agents of agent a, had the tick kept the places it began with
VisibleAtStart(a) ==
    {o \in AgentIDs \ {a} : InView(tick_start[a], heading[a], tick_start[o])}

\* visible_agents of agent a, from where the agents are now
Visible(a) ==
    {o \in AgentIDs \ {a} : InView(location[a], heading[a], location[o])}

----------------------------------------------------------------------------
(* The win checks *)

DwellElapsedStrict(ticks) == ticks > DwellSeconds * TICK_RATE

\* ticks * TIME_PER_TICK >= 3.0, with TIME_PER_TICK = 1.0 / TICK_RATE: in
\* IEEE doubles k * 0.05 >= 3.0 exactly when k >= 60
DwellElapsed(ticks) == ticks >= DwellSeconds * TICK_RATE

\* the guards within the capture radius of intruder i
Capturers(i) ==
    {g \in Guards : Dist2(location[i], location[g]) < Sq(CaptureRadius)}

CapturedNow(i) == Capturers(i) # {}

\* is_captured after the double loop of _capture_check
CapturedAfter(i) == is_captured[i] \/ Capturers(i) # {}

\* the number of on_captured() calls the double loop makes on intruder i
CaptureCalls(i) == Cardinality(Capturers(i))

InsideTarget(i) == Dist2(location[i], Target) < Sq(TargetRadius)

\* the target step with `elif ticks_since_target > 0` left out
TargetStepNoAgeing(c, inside) ==
    LET visited == IF inside /\ c.tin = 0 /\ (DwellElapsed(c.since) \/ c.visited = 0)
                   THEN c.visited + 1 ELSE c.visited
        since   == IF inside THEN (IF c.tin = 0 THEN 0 ELSE c.since)
                   ELSE IF c.tin > 0 THEN c.since + 1
                   ELSE c.since
        tin     == IF inside THEN c.tin + 1 ELSE 0
    IN  [tin |-> tin, since |-> since, visited |-> visited,
         reached |-> c.reached \/ DwellElapsed(tin) \/ visited >= 2,
         notified |-> DwellElapsed(tin)]

\* the target step counting every fresh entry as a visit
TargetStepEveryEntry(c, inside) ==
    LET visited == IF inside /\ c.tin = 0 THEN c.visited + 1 ELSE c.visited
        since   == IF inside THEN (IF c.tin = 0 THEN 0 ELSE c.since)
                   ELSE IF c.tin > 0 THEN c.since + 1
                   ELSE IF c.since > 0 THEN c.since + 1
                   ELSE c.since
        tin     == IF inside THEN c.tin + 1 ELSE 0
    IN  [tin |-> tin, since |-> since, visited |-> visited,
         reached |-> c.reached \/ DwellElapsed(tin) \/ visited >= 2,
         notified |-> DwellElapsed(tin)]

\* the target step with `intruder.ticks_since_target = 0.0` left out
TargetStepNoReset(c, inside) ==
    LET visited == IF inside /\ c.tin = 0 /\ (DwellElapsed(c.since) \/ c.visited = 0)
                   THEN c.visited + 1 ELSE c.visited
        since   == IF inside THEN c.since
                   ELSE IF c.tin > 0 THEN c.since + 1
                   ELSE IF c.since > 0 THEN c.since + 1
                   ELSE c.since
        tin     == IF inside THEN c.tin + 1 ELSE 0
    IN  [tin |-> tin, since |-> since, visited |-> visited,
         reached |-> c.reached \/ DwellElapsed(tin) \/ visited >= 2,
         notified |-> DwellElapsed(tin)]

\* the target step with a reached_target that does not outlive its cause
TargetStepForgetful(c, inside) ==
    LET visited == IF inside /\ c.tin = 0 /\ (DwellElapsed(c.since) \/ c.visited = 0)
                   THEN c.visited + 1 ELSE c.visited
        since   == IF inside THEN (IF c.tin = 0 THEN 0 ELSE c.since)
                   ELSE IF c.tin > 0 THEN c.since + 1
                   ELSE IF c.since > 0 THEN c.since + 1
                   ELSE c.since
        tin     == IF inside THEN c.tin + 1 ELSE 0
    IN  [tin |-> tin, since |-> since, visited |-> visited,
         reached |-> DwellElapsed(tin) \/ visited >= 2,
         notified |-> DwellElapsed(tin)]

\* the body of the loop of _target_check for one intruder:
\* c = [tin, since, visited, reached], the result adds notified
TargetStep(c, inside) ==
    LET visited == IF inside /\ c.tin = 0 /\ (DwellElapsed(c.since) \/ c.visited = 0)
                   THEN c.visited + 1 ELSE c.visited
        since   == IF inside THEN (IF c.tin = 0 THEN 0 ELSE c.since)
                   ELSE IF c.tin > 0 THEN c.since + 1
                   ELSE IF c.since > 0 THEN c.since + 1
                   ELSE c.since
        tin     == IF inside THEN c.tin + 1 ELSE 0
    IN  [tin |-> tin, since |-> since, visited |-> visited,
         reached |-> c.reached \/ DwellElapsed(tin) \/ visited >= 2,
         notified |-> DwellElapsed(tin)]

Counters(i) ==
    [tin |-> ticks_in_target[i], since |-> ticks_since_target[i],
     visited |-> times_visited_target[i], reached |-> reached_target[i]]

----------------------------------------------------------------------------
(* The window (gui/renderer.py): its event handlers run between two calls
   of World.tick() *)

\* GUI.setup: Viewport(-50 * ASPECT_RATIO, 250 * ASPECT_RATIO, -50, 250), not editing
GuiSetup ==
    /\ is_editing = FALSE
    /\ viewport = [left |-> ((0 - 50) * SCREEN_WIDTH * Unit) \div SCREEN_HEIGHT,
                   right |-> (250 * SCREEN_WIDTH * Unit) \div SCREEN_HEIGHT,
                   bottom |-> (0 - 50) * Unit, top |-> 250 * Unit]
    /\ handled = [nr |-> 0, handler |-> "none", input |-> "none", cell |-> <<0, 0>>]

\* int(v): the whole part, towards zero
Whole(v) == IF v >= 0 THEN v \div Unit ELSE 0 - ((0 - v) \div Unit)

\* GUI.screen_to_map: np.interp over the viewport, then int()
ScreenToMap(x, y) ==
    << Whole(viewport.left + (x * (viewport.right - viewport.left)) \div SCREEN_WIDTH),
       Whole(viewport.bottom + (y * (viewport.top - viewport.bottom)) \div SCREEN_HEIGHT) >>

\* Viewport.move: the offsets are shares of the width and height, in tenths
Move(v, tenths_x, tenths_y) ==
    LET dx == (tenths_x * (v.right - v.left)) \div 10
        dy == (tenths_y * (v.top - v.bottom)) \div 10
    IN  [left |-> v.left + dx, right |-> v.right + dx,
         bottom |-> v.bottom + dy, top |-> v.top + dy]

\* Viewport.zoom with factor 1.2: the corners move away from the centre by
\* 1.2 (direction < 0) or towards it by 1 / 1.2
Zoom(v, direction) ==
    LET cx == (v.left + v.right) \div 2
        cy == (v.bottom + v.top) \div 2
        scaled(c, centre) == IF direction < 0 THEN centre + ((c - centre) * 6) \div 5
                             ELSE centre + ((c - centre) * 5) \div 6
    IN  [left |-> scaled(v.left, cx), right |-> scaled(v.right, cx),
         bottom |-> scaled(v.bottom, cy), top |-> scaled(v.top, cy)]

\* the wall grid after a press that edits whether or not the editor is on
EditedAnyway(w, editing, button, cell) ==
    IF /\ button = "LEFT"
       /\ cell[1] >= 0 /\ cell[2] >= 0 /\ cell[1] < MapW /\ cell[2] < MapH
    THEN w \cup {cell} ELSE w

\* on_mouse_press: the wall grid after a press of button on the cell
Edited(w, editing, button, cell) ==
    IF /\ editing
       /\ button = "LEFT"
       /\ cell[1] >= 0 /\ cell[2] >= 0 /\ cell[1] < MapW /\ cell[2] < MapH
    THEN w \cup {cell} ELSE w

\* the window events of the model: some keys, some presses, the wheel
Keys == {"UP", "DOWN", "LEFT", "RIGHT", "B", "E", "Q"}
Buttons == {"LEFT", "RIGHT"}
Pixels == {<<218, 164>>, <<212, 167>>, <<230, 164>>}

Between == pc \in {"new", "idle"} /\ handled.nr < MaxGuiEvents

tick_state ==
    <<agents, location, heading, visible_agents, has_collided, message_queue_in,
      noises, old_noises, time_ticks, is_captured, reached_target, ticks_in_target,
      ticks_since_target, times_visited_target, pc, idx, result, tick_no, continued,
      captured_calls, reached_calls, delivered, sent, dwell_history, noise_history,
      tick_start>>

OnMousePress ==
    /\ Between
    /\ \E p \in Pixels, button \in Buttons :
          /\ walls' = Edited(walls, is_editing, button, ScreenToMap(p[1], p[2]))
          /\ handled' = [nr |-> handled.nr + 1, handler |-> "on_mouse_press",
                         input |-> button, cell |-> ScreenToMap(p[1], p[2])]
    /\ UNCHANGED <<is_editing, viewport, tick_state, files>>

OnMouseScroll ==
    /\ Between
    /\ \E scroll_y \in {-1, 1} :
          /\ viewport' = Zoom(viewport, scroll_y)
          /\ handled' = [nr |-> handled.nr + 1, handler |-> "on_mouse_scroll",
                         input |-> IF scroll_y < 0 THEN "down" ELSE "up",
                         cell |-> <<0, 0>>]
    /\ UNCHANGED <<walls, is_editing, tick_state, files>>

OnKeyPress ==
    /\ Between
    /\ \E key \in Keys :
          /\ viewport' = IF key = "UP" THEN Move(viewport, 0, 1)
                         ELSE IF key = "DOWN" THEN Move(viewport, 0, -1)
                         ELSE IF key = "LEFT" THEN Move(viewport, -1, 0)
                         ELSE IF key = "RIGHT" THEN Move(viewport, 1, 0)
                         ELSE viewport
          /\ is_editing' = IF key = "E" THEN ~is_editing ELSE is_editing
          /\ handled' = [nr |-> handled.nr + 1, handler |-> "on_key_press",
                         input |-> key, cell |-> <<0, 0>>]
    /\ UNCHANGED <<walls, tick_state, files>>

----------------------------------------------------------------------------
(* World.to_file and World.from_file, as far as the agents go *)

\* strategy classes defined outside ai/agents.py, one of them under a name
\* that ai/agents.py uses too
Patrol == [module |-> "__main__", name |-> "Patrol", base |-> "GuardAgent"]

OtherSimpleGuard == [module |-> "__main__", name |-> "SimpleGuard", base |-> "GuardAgent"]

\* the classes importlib.import_module("ai.agents") has as attributes
AiAgents == {SimpleGuard, PathfindingIntruder}

\* save_agents: [agent.__class__.__name__ for ID, agent in self.agents.items()]
SaveAgents(roster) == [k \in 1 .. Len(roster) |-> roster[k].name]

\* getattr(importlib.import_module("ai.agents"), agent_name): the class of
\* that name in ai/agents.py; it raises AttributeError when there is none
Known(agent_name) == \E c \in AiAgents : c.name = agent_name

GetAttr(agent_name) == CHOOSE c \in AiAgents : c.name = agent_name

\* add_agent: the new agent gets an ID of its own and is the last of the
\* dict
AddAgent(roster, agent_class) == Append(roster, agent_class)

\* load_agents, from the k-th name on; w = [outcome, agents]
RECURSIVE LoadAgents(_, _, _)
LoadAgents(names, k, w) ==
    IF k > Len(names) THEN w
    ELSE IF ~Known(names[k]) THEN [w EXCEPT !.outcome = "AttributeError"]
    ELSE LoadAgents(names, k + 1, [w EXCEPT !.agents = AddAgent(@, GetAttr(names[k]))])

\* to_file(name): save_agents writes the file
ToFile ==
    /\ pc \in {"new", "idle"}
    /\ saved' = [written |-> TRUE, agents |-> SaveAgents(agents)]
    /\ UNCHANGED <<walls, tick_state, gui, loaded>>

\* from_file(name): a new World, then load_agents on it
FromFile ==
    /\ pc \in {"new", "idle"}
    /\ saved.written
    /\ loaded' = LoadAgents(saved.agents, 1, [outcome |-> "world", agents |-> <<>>])
    /\ UNCHANGED <<walls, tick_state, gui, saved>>

----------------------------------------------------------------------------
(* Scenarios: the roster, the map and what the strategies may do.  The     *)
(* strategies are arbitrary (ai/agents.py holds two of them): in its tick  *)
(* an agent ends at one of the points of its scenario, or a step away from *)
(* where it is, and may send one message.                                  *)

PT == Target
PEdge == <<180, 190>>
PFar == <<250, 150>>
PNear == <<180, 150>>
PAway == <<250, 250>>
PBy == <<250, 180>>
PByWall == <<120, 50>>

\* capture: two guards around one intruder, no events
ScMain ==
    [roster   |-> <<SimpleGuard, PathfindingIntruder, SimpleGuard>>,
     layouts  |-> {{<<0, 0>>}},
     spawn    |-> <<{PNear, PAway}, {PT, PFar}, {PEdge, PAway}>>,
     points   |-> <<{PNear, PAway}, {PT, PFar}, {PEdge, PNear}>>,
     steps    |-> {},
     headings |-> {0}, turns |-> {}, strangers |-> {}, loud |-> {}, snapshot |-> FALSE,
     maxTicks |-> MaxTicks, maxMsgs |-> 0, maxNoise |-> 0]

\* events: messages between agents that stay where they are, ambient noise
ScEvents ==
    [roster   |-> <<SimpleGuard, PathfindingIntruder, SimpleGuard>>,
     layouts  |-> {{<<0, 0>>}},
     spawn    |-> <<{PAway}, {PT, PFar}, {PEdge}>>,
     points   |-> <<{}, {}, {}>>,
     steps    |-> {},
     headings |-> {0}, turns |-> {}, strangers |-> {}, loud |-> {}, snapshot |-> FALSE,
     maxTicks |-> MaxTicks, maxMsgs |-> MaxMsgs, maxNoise |-> MaxNoise]

\* dwell: a long run; one intruder comes and goes, one stays where it is
ScDwell ==
    [roster   |-> <<SimpleGuard, PathfindingIntruder, PathfindingIntruder>>,
     layouts  |-> {{<<0, 0>>}},
     spawn    |-> <<{PAway}, {PT, PEdge}, {PT, PFar}>>,
     points   |-> <<{PBy, PAway}, {PT, PEdge}, {}>>,
     steps    |-> {},
     headings |-> {0}, turns |-> {}, strangers |-> {}, loud |-> {}, snapshot |-> FALSE,
     maxTicks |-> DwellTicks, maxMsgs |-> 0, maxNoise |-> 0]

\* collision: a guard picks its start anywhere on a map with walls (on_pick_start
\* of ai/agents.py draws it uniformly over the map) and moves in steps
SpawnCoords == {0, 25, 50, 120, 150, 275}

ScCollide ==
    [roster   |-> <<SimpleGuard, PathfindingIntruder>>,
     layouts  |-> {{<<0, 1>>}, {<<1, 1>>}, {<<1, 2>>, <<2, 2>>, <<2, 1>>}},
     spawn    |-> <<SpawnCoords \X SpawnCoords, {<<150, 50>>}>>,
     points   |-> <<{}, {}>>,
     steps    |-> {<<60, 0>>, <<-60, 0>>, <<0, 60>>, <<0, -60>>},
     headings |-> {0}, turns |-> {}, strangers |-> {}, loud |-> {}, snapshot |-> FALSE,
     maxTicks |-> CollideTicks, maxMsgs |-> 0, maxNoise |-> 0]

\* vision: a guard that moves about an intruder, a guard that steps back from
\* the first; all of them may turn by a quarter
ScVision ==
    [roster   |-> <<SimpleGuard, PathfindingIntruder, SimpleGuard>>,
     layouts  |-> {{<<0, 0>>}},
     spawn    |-> <<{<<150, 250>>}, {<<150, 50>>, <<250, 50>>}, {<<150, 110>>}>>,
     points   |-> <<{<<150, 251>>, <<130, 170>>, <<129, 170>>}, {}, {<<150, 90>>}>>,
     steps    |-> {},
     headings |-> {0, 180}, turns |-> {90}, strangers |-> {}, loud |-> {},
     snapshot |-> TRUE,
     maxTicks |-> VisionTicks, maxMsgs |-> 0, maxNoise |-> 0]

\* noise: ambient events and agents that add events of their own; the first
\* guard starts against the wall
ScNoise ==
    [roster   |-> <<SimpleGuard, PathfindingIntruder, SimpleGuard>>,
     layouts  |-> {{<<0, 0>>}},
     spawn    |-> <<{PByWall}, {PFar}, {PEdge}>>,
     points   |-> <<{}, {}, {}>>,
     steps    |-> {},
     headings |-> {0}, turns |-> {}, strangers |-> {}, loud |-> {1, 3}, snapshot |-> FALSE,
     maxTicks |-> NoiseTicks, maxMsgs |-> 0, maxNoise |-> NoiseCap]

\* window: three agents that stay where they are while the map is edited
ScWindow ==
    [roster   |-> <<SimpleGuard, PathfindingIntruder, SimpleGuard>>,
     layouts  |-> {{<<0, 0>>}},
     spawn    |-> <<{PAway}, {PFar}, {PEdge}>>,
     points   |-> <<{}, {}, {}>>,
     steps    |-> {},
     headings |-> {0}, turns |-> {}, strangers |-> {}, loud |-> {}, snapshot |-> FALSE,
     maxTicks |-> 1, maxMsgs |-> 0, maxNoise |-> 0]

\* files: any roster of up to MaxAgents agents, of four classes
Rosters ==
    UNION {[1 .. n -> {SimpleGuard, PathfindingIntruder, Patrol, OtherSimpleGuard}] :
           n \in 0 .. MaxAgents}

ScFile(roster) ==
    [roster   |-> roster,
     layouts  |-> {{<<0, 0>>}},
     spawn    |-> [a \in 1 .. Len(roster) |-> {PAway}],
     points   |-> [a \in 1 .. Len(roster) |-> {}],
     steps    |-> {},
     headings |-> {0}, turns |-> {}, strangers |-> {}, loud |-> {}, snapshot |-> FALSE,
     maxTicks |-> 0, maxMsgs |-> 0, maxNoise |-> 0]

\* strangers: messages may go to an ID that no agent of the world has
ScStranger ==
    [roster   |-> <<SimpleGuard, PathfindingIntruder, SimpleGuard>>,
     layouts  |-> {{<<0, 0>>}},
     spawn    |-> <<{PAway}, {PT, PFar}, {PEdge}>>,
     points   |-> <<{}, {}, {}>>,
     steps    |-> {},
     headings |-> {0}, turns |-> {}, strangers |-> {4}, loud |-> {}, snapshot |-> FALSE,
     maxTicks |-> MaxTicks, maxMsgs |-> MaxMsgs, maxNoise |-> 0]

\* a finished simulation: a long run of an intruder that comes and goes, by
\* a guard that stays where it started, within reach of the intruder or not:
\* either side may win
ScOver ==
    [roster   |-> <<SimpleGuard, PathfindingIntruder>>,
     layouts  |-> {{<<0, 0>>}},
     spawn    |-> <<{PBy, PAway}, {PT, PFar}>>,
     points   |-> <<{}, {PT, PFar}>>,
     steps    |-> {},
     headings |-> {0}, turns |-> {}, strangers |-> {}, loud |-> {}, snapshot |-> FALSE,
     maxTicks |-> DwellTicks, maxMsgs |-> 0, maxNoise |-> 0]

\* a world of guards only
ScPatrol ==
    [roster   |-> <<SimpleGuard, SimpleGuard>>,
     layouts  |-> {{<<0, 0>>}},
     spawn    |-> <<{PAway}, {PEdge}>>,
     points   |-> <<{PBy, PAway}, {PEdge, PNear}>>,
     steps    |-> {},
     headings |-> {0}, turns |-> {}, strangers |-> {}, loud |-> {}, snapshot |-> FALSE,
     maxTicks |-> MaxTicks, maxMsgs |-> 0, maxNoise |-> 0]

\* the scenario of the world at hand, by its roster
ScOfRoster == IF agents = ScPatrol.roster THEN ScPatrol ELSE ScOver

Boot(sc) ==
    /\ walls \in sc.layouts
    /\ agents = sc.roster
    /\ location = [a \in 1 .. Len(sc.roster) |-> <<0, 0>>]
    /\ heading = [a \in 1 .. Len(sc.roster) |-> 0]
    /\ visible_agents = {}
    /\ has_collided = [a \in 1 .. Len(sc.roster) |-> FALSE]
    /\ message_queue_in = [a \in 1 .. Len(sc.roster) |-> <<>>]
    /\ noises = <<>>
    /\ old_noises = <<>>
    /\ time_ticks = 0
    /\ is_captured = [a \in 1 .. Len(sc.roster) |-> FALSE]
    /\ reached_target = [a \in 1 .. Len(sc.roster) |-> FALSE]
    /\ ticks_in_target = [a \in 1 .. Len(sc.roster) |-> 0]
    /\ ticks_since_target = [a \in 1 .. Len(sc.roster) |-> 0]
    /\ times_visited_target = [a \in 1 .. Len(sc.roster) |-> 0]
    /\ pc = "new"
    /\ idx = 0
    /\ result = "none"
    /\ tick_no = 0
    /\ continued = 0
    /\ captured_calls = [a \in 1 .. Len(sc.roster) |-> 0]
    /\ reached_calls = [a \in 1 .. Len(sc.roster) |-> 0]
    /\ delivered = {}
    /\ inside_run = [a \in 1 .. Len(sc.roster) |-> 0]
    /\ outside_run = [a \in 1 .. Len(sc.roster) |-> 0]
    /\ entry = [a \in 1 .. Len(sc.roster) |-> "none"]
    /\ sent = 0
    /\ emitted = <<>>
    /\ heard = [a \in 1 .. Len(sc.roster) |-> <<>>]
    /\ GuiSetup
    /\ saved = [written |-> FALSE, agents |-> <<>>]
    /\ loaded = [outcome |-> "none", agents |-> <<>>]
    /\ tick_start = <<>>

----------------------------------------------------------------------------
(* World.setup(): agent.setup(world) for every agent.  The agent runs its
   on_setup, which may turn it, and takes the place on_pick_start returns:
   both strategies of ai/agents.py draw it uniformly over the whole map *)

Setup(sc) ==
    /\ pc = "new"
    /\ location' \in [AgentIDs -> UNION {sc.spawn[a] : a \in AgentIDs}]
    /\ \A a \in AgentIDs : location'[a] \in sc.spawn[a]
    /\ heading' \in [AgentIDs -> sc.headings]
    /\ pc' = "idle"
    /\ UNCHANGED <<walls, agents, visible_agents, has_collided, message_queue_in,
                   noises, old_noises, time_ticks, is_captured, reached_target,
                   ticks_in_target, ticks_since_target, times_visited_target, idx,
                   result, tick_no, continued, captured_calls, reached_calls,
                   delivered, sent, dwell_history, noise_history, gui, files, tick_start>>

----------------------------------------------------------------------------
(* World.tick(), phase by phase *)

\* an emission of two events at once
EmittedTwice(sc) ==
    {<<>>} \cup
    (IF Len(emitted) + 1 < sc.maxNoise
     THEN {<<NoiseEvent(cell, time_ticks), NoiseEvent(cell, time_ticks)>> : cell \in Cells}
     ELSE {})

\* emit_random_noise: the draw decides whether one event is added, and where
EmittedNoise(sc) ==
    {<<>>} \cup
    (IF Len(emitted) < sc.maxNoise
     THEN {<<NoiseEvent(cell, time_ticks)>> : cell \in Cells} ELSE {})

\* the history has lost what it held
RolledOverAfresh(history, current) == current

\* self.old_noises.extend(self.noises)
RolledOver(history, current) == history \o current

\* the add_noise() calls that put the events there, by caller `by` in tick `at`
Calls(events, by, at) ==
    [k \in 1 .. Len(events) |-> [event |-> events[k], by |-> by, at |-> at]]

\* tick(): the noise list is rolled into the history, then emit_random_noise
TickBegin(sc) ==
    /\ pc = "idle"
    /\ tick_no < sc.maxTicks
    /\ old_noises' = RolledOver(old_noises, noises)
    /\ noises' \in EmittedNoise(sc)
    /\ emitted' = emitted \o Calls(noises', 0, tick_no + 1)
    /\ heard' = [a \in AgentIDs |-> <<>>]
    /\ tick_start' = IF sc.snapshot THEN location ELSE <<>>
    /\ tick_no' = tick_no + 1
    /\ pc' = "vision"
    /\ idx' = 1
    /\ UNCHANGED <<walls, agents, heading, visible_agents, location, has_collided,
                   message_queue_in, time_ticks,
                   is_captured, reached_target, ticks_in_target, ticks_since_target,
                   times_visited_target, result, continued, captured_calls,
                   reached_calls, delivered, sent, dwell_history, gui, files>>

\* where the strategy of agent a may have taken it by the end of its tick
Destinations(sc, a) ==
    {location[a]} \cup sc.points[a]
    \cup {<<location[a][1] + d[1], location[a][2] + d[2]>> : d \in sc.steps}

\* what agent a may add with World.add_noise in its tick: nothing, or one
\* event where it is
AgentNoise(sc, a) ==
    {<<>>} \cup
    (IF a \in sc.loud /\ Len(emitted) < sc.maxNoise
     THEN {<<NoiseEvent(<<Floor(location[a][1]), Floor(location[a][2])>>, time_ticks)>>}
     ELSE {})

\* what agent a may send in its tick: nothing, or one message
Outgoing(sc, a) ==
    {<<>>} \cup
    (IF sent < sc.maxMsgs
     THEN {<<Message(a, t, tick_no)>> : t \in (AgentIDs \ {a}) \cup sc.strangers}
     ELSE {})

\* self.agents[message.target] raises KeyError: no agent has that ID
KeyError(out) == out # <<>> /\ out[1].target \notin AgentIDs

\* World.transmit_message, for the messages out (at most one)
TransmitMessage(queues, out) ==
    IF out = <<>> \/ KeyError(out) THEN queues
    ELSE [queues EXCEPT ![out[1].target] = Append(@, out[1])]

\* Agent.tick, before the strategy acts: every queued message goes to
\* on_message, in order, and the queue is emptied
Handed(a) ==
    {[msg |-> message_queue_in[a][k], at |-> tick_no] : k \in 1 .. Len(message_queue_in[a])}

Drained(queues, a) == [queues EXCEPT ![a] = <<>>]

\* Agent.tick: the flag of the last collision is cleared
ClearedCollision(flags, a) == [flags EXCEPT ![a] = FALSE]

\* tick() after the first round of the loop over the agents
AfterFirstAgent(a) == "collision"

\* tick() after the round of agent a: the next round, or _collision_check
\* once the loop is through
AfterAgent(a) == IF a = Len(agents) THEN "collision" ELSE "vision"

\* what the strategy of agent a may have turned it to
Headings(sc, a) == {(heading[a] + t) % 360 : t \in {0} \cup sc.turns}

\* tick(): one round of the loop over the agents, up to the call of
\* agent.tick: the agents that agent idx sees
VisionUpdate ==
    /\ pc = "vision"
    /\ idx \in AgentIDs
    /\ visible_agents' = Visible(idx)
    /\ pc' = "agents"
    /\ UNCHANGED <<walls, agents, heading, location, has_collided, message_queue_in,
                   noises, old_noises, time_ticks, is_captured, reached_target,
                   ticks_in_target, ticks_since_target, times_visited_target, idx,
                   result, tick_no, continued, captured_calls, reached_calls,
                   delivered, sent, dwell_history, noise_history, gui, files, tick_start>>

\* tick(): the rest of the round, agent.tick(seen_agents=visible_agents): the
\* agent handles its messages, then its strategy turns and moves it and may
\* send; the list does not outlive the round.  A message to an ID that no
\* agent has ends the tick with the exception of transmit_message
AgentTick(sc) ==
    /\ pc = "agents"
    /\ idx \in AgentIDs
    /\ \E hd \in Headings(sc, idx) : heading' = [heading EXCEPT ![idx] = hd]
    /\ visible_agents' = {}
    /\ \E dest \in Destinations(sc, idx), out \in Outgoing(sc, idx) :
          /\ location' = [location EXCEPT ![idx] = dest]
          /\ message_queue_in' = TransmitMessage(Drained(message_queue_in, idx), out)
          /\ sent' = sent + Len(out)
          /\ IF KeyError(out)
             THEN pc' = "idle" /\ result' = "raised" /\ idx' = idx
             ELSE /\ pc' = AfterAgent(idx)
                  /\ result' = result
                  /\ idx' = idx + 1
    /\ \E made \in AgentNoise(sc, idx) :
          /\ noises' = noises \o made
          /\ emitted' = emitted \o Calls(made, idx, tick_no)
    /\ delivered' = delivered \cup Handed(idx)
    /\ has_collided' = ClearedCollision(has_collided, idx)
    /\ UNCHANGED <<walls, agents, old_noises, time_ticks, is_captured,
                   reached_target, ticks_in_target, ticks_since_target,
                   times_visited_target, tick_no, continued, captured_calls,
                   reached_calls, dwell_history, heard, gui, files, tick_start>>

\* the agents whose corner snap raises (as_length of a zero vector)
Raising == {a \in AgentIDs : Collide(walls, location[a], AgentWidth).raised}

\* _collision_check: every agent in turn; an exception ends the tick with
\* the agents after the raising one untouched
CollisionCheck ==
    /\ pc = "collision"
    /\ LET stop == IF Raising = {} THEN Len(agents) + 1
                   ELSE CHOOSE a \in Raising : \A b \in Raising : a <= b
       IN  /\ location' = [a \in AgentIDs |->
                  IF a <= stop THEN Collide(walls, location[a], AgentWidth).loc
                  ELSE location[a]]
           /\ has_collided' = [a \in AgentIDs |->
                  IF a <= stop
                  THEN has_collided[a] \/ Collide(walls, location[a], AgentWidth).hit
                  ELSE has_collided[a]]
           /\ pc' = IF Raising = {} THEN "noise" ELSE "idle"
           /\ result' = IF Raising = {} THEN result ELSE "raised"
    /\ UNCHANGED <<walls, agents, heading, visible_agents, message_queue_in, noises,
                   old_noises, time_ticks,
                   is_captured, reached_target, ticks_in_target, ticks_since_target,
                   times_visited_target, idx, tick_no, continued, captured_calls,
                   reached_calls, delivered, sent, dwell_history, noise_history, gui, files, tick_start>>

\* tick(): on_noise(self.noises) for every agent
NoiseDeliver ==
    /\ pc = "noise"
    /\ heard' = [a \in AgentIDs |-> Append(heard[a], noises)]
    /\ pc' = "capture"
    /\ UNCHANGED <<walls, agents, heading, visible_agents, location, has_collided,
                   message_queue_in, noises,
                   old_noises, time_ticks, is_captured, reached_target, ticks_in_target,
                   ticks_since_target, times_visited_target, idx, result, tick_no,
                   continued, captured_calls, reached_calls, delivered, sent,
                   dwell_history, emitted, gui, files, tick_start>>

AnyIntruder(flag) == \E i \in Intruders : flag[i]

\* all(... for ID, intruder in self.intruders.items())
AllIntruders(flag) == \A i \in Intruders : flag[i]

\* tick(): _capture_check, and the return when every intruder is captured
CaptureCheck ==
    /\ pc = "capture"
    /\ is_captured' = [a \in AgentIDs |->
           IF a \in Intruders THEN CapturedAfter(a) ELSE is_captured[a]]
    /\ captured_calls' = [a \in AgentIDs |->
           IF a \in Intruders THEN Min(CallCap, captured_calls[a] + CaptureCalls(a))
           ELSE captured_calls[a]]
    /\ IF AllIntruders([a \in AgentIDs |-> CapturedAfter(a)])
       THEN pc' = "idle" /\ result' = "True"
       ELSE pc' = "target" /\ result' = result
    /\ UNCHANGED <<walls, agents, heading, visible_agents, location, has_collided,
                   message_queue_in, noises,
                   old_noises, time_ticks, reached_target, ticks_in_target,
                   ticks_since_target, times_visited_target, idx, tick_no, continued,
                   reached_calls, delivered, sent, dwell_history, noise_history, gui, files, tick_start>>

\* the counters of intruder i after the loop of _target_check
TargetAfter(i) == TargetStep(Counters(i), InsideTarget(i))

TickCounterAlways(terminal) == time_ticks + 1

\* tick(): time_ticks after the returns on a finished simulation
TickCounterAfter(terminal) == IF terminal THEN time_ticks ELSE time_ticks + 1

\* tick(): _target_check, the return when every intruder has reached the
\* target, and otherwise the tick counter and the return of False
TargetCheck ==
    /\ pc = "target"
    /\ ticks_in_target' = [a \in AgentIDs |->
           IF a \in Intruders THEN TargetAfter(a).tin ELSE ticks_in_target[a]]
    /\ ticks_since_target' = [a \in AgentIDs |->
           IF a \in Intruders THEN TargetAfter(a).since ELSE ticks_since_target[a]]
    /\ times_visited_target' = [a \in AgentIDs |->
           IF a \in Intruders THEN TargetAfter(a).visited ELSE times_visited_target[a]]
    /\ reached_target' = [a \in AgentIDs |->
           IF a \in Intruders THEN TargetAfter(a).reached ELSE reached_target[a]]
    /\ reached_calls' = [a \in AgentIDs |->
           IF a \in Intruders /\ TargetAfter(a).notified
           THEN Min(CallCap, reached_calls[a] + 1) ELSE reached_calls[a]]
    /\ inside_run' = [a \in AgentIDs |->
           IF a \in Intruders THEN (IF InsideTarget(a) THEN inside_run[a] + 1 ELSE 0)
           ELSE inside_run[a]]
    /\ outside_run' = [a \in AgentIDs |->
           IF a \in Intruders
           THEN (IF InsideTarget(a) THEN 0
                 ELSE IF inside_run[a] > 0 \/ outside_run[a] > 0 THEN outside_run[a] + 1
                 ELSE 0)
           ELSE outside_run[a]]
    /\ entry' = [a \in AgentIDs |->
           IF a \in Intruders /\ InsideTarget(a) /\ inside_run[a] = 0
           THEN (IF outside_run[a] = 0 THEN "first"
                 ELSE IF outside_run[a] >= DwellSeconds * TICK_RATE THEN "late"
                 ELSE "early")
           ELSE "none"]
    /\ IF AllIntruders([a \in AgentIDs |-> TargetAfter(a).reached])
       THEN /\ result' = "True"
            /\ time_ticks' = TickCounterAfter(TRUE)
            /\ continued' = continued
       ELSE /\ result' = "False"
            /\ time_ticks' = TickCounterAfter(FALSE)
            /\ continued' = continued + 1
    /\ pc' = "idle"
    /\ UNCHANGED <<walls, agents, heading, visible_agents, location, has_collided,
                   message_queue_in, noises,
                   old_noises, is_captured, idx, tick_no, captured_calls, delivered, sent,
                   noise_history, gui, files, tick_start>>

----------------------------------------------------------------------------
(* Specifications *)

Init == Boot(ScMain)

Next ==
    \/ Setup(ScMain)
    \/ TickBegin(ScMain)
    \/ VisionUpdate
    \/ AgentTick(ScMain)
    \/ CollisionCheck
    \/ NoiseDeliver
    \/ CaptureCheck
    \/ TargetCheck

Spec == Init /\ [][Next]_vars

InitDwell == Boot(ScDwell)

NextDwell ==
    \/ Setup(ScDwell)
    \/ TickBegin(ScDwell)
    \/ VisionUpdate
    \/ AgentTick(ScDwell)
    \/ CollisionCheck
    \/ NoiseDeliver
    \/ CaptureCheck
    \/ TargetCheck

SpecDwell == InitDwell /\ [][NextDwell]_vars

InitCollide == Boot(ScCollide)

NextCollide ==
    \/ Setup(ScCollide)
    \/ TickBegin(ScCollide)
    \/ VisionUpdate
    \/ AgentTick(ScCollide)
    \/ CollisionCheck
    \/ NoiseDeliver
    \/ CaptureCheck
    \/ TargetCheck

SpecCollide == InitCollide /\ [][NextCollide]_vars

InitEvents == Boot(ScEvents)

NextEvents ==
    \/ Setup(ScEvents)
    \/ TickBegin(ScEvents)
    \/ VisionUpdate
    \/ AgentTick(ScEvents)
    \/ CollisionCheck
    \/ NoiseDeliver
    \/ CaptureCheck
    \/ TargetCheck

SpecEvents == InitEvents /\ [][NextEvents]_vars

InitVision == Boot(ScVision)

NextVision ==
    \/ Setup(ScVision)
    \/ TickBegin(ScVision)
    \/ VisionUpdate
    \/ AgentTick(ScVision)
    \/ CollisionCheck
    \/ NoiseDeliver
    \/ CaptureCheck
    \/ TargetCheck

SpecVision == InitVision /\ [][NextVision]_vars

InitNoise == Boot(ScNoise)

NextNoise ==
    \/ Setup(ScNoise)
    \/ TickBegin(ScNoise)
    \/ VisionUpdate
    \/ AgentTick(ScNoise)
    \/ CollisionCheck
    \/ NoiseDeliver
    \/ CaptureCheck
    \/ TargetCheck

SpecNoise == InitNoise /\ [][NextNoise]_vars

InitWindow == Boot(ScWindow)

NextWindow ==
    \/ Setup(ScWindow)
    \/ TickBegin(ScWindow)
    \/ VisionUpdate
    \/ AgentTick(ScWindow)
    \/ CollisionCheck
    \/ NoiseDeliver
    \/ CaptureCheck
    \/ TargetCheck
    \/ OnMousePress
    \/ OnMouseScroll
    \/ OnKeyPress

SpecWindow == InitWindow /\ [][NextWindow]_vars

InitFile == \E roster \in Rosters : Boot(ScFile(roster))

NextFile ==
    \/ ToFile
    \/ FromFile

SpecFile == InitFile /\ [][NextFile]_vars

InitStranger == Boot(ScStranger)

NextStranger ==
    \/ Setup(ScStranger)
    \/ TickBegin(ScStranger)
    \/ VisionUpdate
    \/ AgentTick(ScStranger)
    \/ CollisionCheck
    \/ NoiseDeliver
    \/ CaptureCheck
    \/ TargetCheck

SpecStranger == InitStranger /\ [][NextStranger]_vars

InitOver == Boot(ScOver) \/ Boot(ScPatrol)

NextOver ==
    \/ Setup(ScOfRoster)
    \/ TickBegin(ScOfRoster)
    \/ VisionUpdate
    \/ AgentTick(ScOfRoster)
    \/ CollisionCheck
    \/ NoiseDeliver
    \/ CaptureCheck
    \/ TargetCheck

SpecOver == InitOver /\ [][NextOver]_vars

----------------------------------------------------------------------------
(* Claims *)

\* a tick() call has returned and no other is under way
Returned == pc = "idle" /\ result \in {"True", "False"}

\* C1: every intruder's on_captured() is invoked exactly once, in the tick
\* that captures it: never twice in that tick (several guards in range) and
\* never again in a later tick
C1_CapturedNotifiedOnce ==
    \A i \in Intruders : captured_calls[i] = IF is_captured[i] THEN 1 ELSE 0

\* C2: a message sent during tick N is handed to on_message during tick N+1
\* and never during tick N, whatever the order of sender and target
C2_DeliveredNextTick ==
    /\ \A d \in delivered : d.at = d.msg.sent + 1
    /\ \A a \in AgentIDs : \A k \in 1 .. Len(message_queue_in[a]) :
          \/ message_queue_in[a][k].sent = tick_no
          \/ /\ message_queue_in[a][k].sent + 1 = tick_no
             /\ pc \in {"vision", "agents"}
             /\ idx <= a

\* C3: tick() returns True exactly when, after its checks, every intruder
\* is captured or every intruder has reached the target
C3_TrueIffAllCapturedOrAllReached ==
    Returned =>
        (result = "True" <=>
            \/ \A i \in Intruders : is_captured[i]
            \/ \A i \in Intruders : reached_target[i])

\* C3 witness: each intruder is captured or has reached the target, neither
\* holds for all of them, and tick() returned False
C3_MixedOutcome ==
    /\ Returned
    /\ result = "False"
    /\ \A i \in Intruders : is_captured[i] \/ reached_target[i]
    /\ \E i \in Intruders : reached_target[i] /\ ~is_captured[i]
    /\ \E i \in Intruders : is_captured[i] /\ ~reached_target[i]

\* C4: in a tick in which every intruder is captured the target counters
\* are still updated as the target check would update them
C4_CountersUpdatedOnGuardsWin ==
    [][(pc = "capture" /\ pc' = "idle") =>
         \A i \in Intruders :
            /\ ticks_in_target'[i] = TargetAfter(i).tin
            /\ ticks_since_target'[i] = TargetAfter(i).since
            /\ times_visited_target'[i] = TargetAfter(i).visited]_vars

\* C5: win type A.  An intruder not yet at the target and with fewer than
\* two counted visits, inside the radius at this target check, has
\* reached_target after it exactly when this is at least the 60th check in
\* a row that finds it inside, and on_reached_target() is called exactly then
C5_DwellOfSixtyTicks ==
    [][pc = "target" =>
         \A i \in Intruders :
            (InsideTarget(i) /\ ~reached_target[i] /\ times_visited_target'[i] < 2) =>
               /\ reached_target'[i] <=> inside_run'[i] >= 60
               /\ reached_calls'[i] = reached_calls[i] + 1 <=> inside_run'[i] >= 60
               /\ reached_calls'[i] = reached_calls[i] <=> inside_run'[i] < 60]_vars

\* C5 witness: the 60th check in a row inside, in a first visit
C5_SixtiethTick ==
    \E i \in Intruders :
        /\ pc = "idle"
        /\ inside_run[i] = 60
        /\ reached_target[i]
        /\ times_visited_target[i] = 1
        /\ reached_calls[i] = 1

\* C6: win type B.  An intruder with one counted visit that re-enters the
\* radius after at least 60 target checks outside has two counted visits
\* and reached_target after the check of the re-entry
C6_SecondVisitAfterThreeSeconds ==
    [][pc = "target" =>
         \A i \in Intruders :
            (/\ InsideTarget(i)
             /\ inside_run[i] = 0
             /\ outside_run[i] >= 60
             /\ times_visited_target[i] = 1) =>
               /\ times_visited_target'[i] = 2
               /\ reached_target'[i]]_vars

\* C6 witness: reached by the second visit, no visit having lasted 60 ticks
C6_ReachedBySecondVisit ==
    \E i \in Intruders :
        /\ pc = "idle"
        /\ entry[i] = "late"
        /\ times_visited_target[i] = 2
        /\ reached_target[i]
        /\ reached_calls[i] = 0

C8_StickyFlags ==
    [][\A i \in Intruders :
          /\ is_captured[i] => is_captured'[i]
          /\ reached_target[i] => reached_target'[i]]_vars

\* C8 witness: a captured intruder with no guard in range any more, and an
\* intruder that reached the target and has left it
C8_FlagsOutliveTheirCause ==
    /\ pc = "idle"
    /\ \E i \in Intruders : is_captured[i] /\ Capturers(i) = {}
    /\ \E i \in Intruders : reached_target[i] /\ ~InsideTarget(i)

\* C9: time_ticks grows by exactly one when a tick() call returns False and
\* at no other step, so it is the number of calls that returned False
C9_TickCounter ==
    /\ [](time_ticks = continued)
    /\ [][time_ticks' = time_ticks +
             (IF pc # "idle" /\ pc' = "idle" /\ result' = "False" THEN 1 ELSE 0)]_vars

\* C9 witness: terminal and non-terminal calls have both happened
C9_TerminalTicksNotCounted ==
    /\ Returned
    /\ result = "True"
    /\ time_ticks > 0
    /\ tick_no > time_ticks + 1

\* C10: after tick() returns every agent is within [0, width) x [0, height)
C10_InsideMap ==
    (Returned /\ tick_no > 0) =>
        \A a \in AgentIDs :
            /\ 0 <= location[a][1] /\ location[a][1] < MapW * Unit
            /\ 0 <= location[a][2] /\ location[a][2] < MapH * Unit

\* C11: an agent whose position is in a wall cell when collision resolution
\* starts has its position outside every wall cell when it is done, and
\* collision resolution leaves an agent alone (position and collision flag)
\* that is on the map with none of its eight probe points in a wall
C11_EmbeddedAgentFreed ==
    [][(pc = "collision" /\ pc' = "noise") =>
         \A a \in AgentIDs :
            LET x == location[a][1]
                y == location[a][2]
                h == AgentWidth \div 2
            IN  /\ CollisionPoint(walls, x, y) =>
                      ~CollisionPoint(walls, location'[a][1], location'[a][2])
                /\ (/\ Clamp(location[a]) = location[a]
                    /\ ~EdgeHit(walls, x, y, h)
                    /\ \A k \in 1 .. 4 :
                          ~CollisionPoint(walls, Corners(x, y, h)[k][1], Corners(x, y, h)[k][2])) =>
                      /\ location'[a] = location[a]
                      /\ has_collided'[a] = has_collided[a]]_vars

\* C12: the list handed to agent.tick holds exactly the other agents that
\* are within view_range and at most view_angle off the heading (the
\* deviation taken in -180 .. 180), or within 1.5, bounds included
C12_VisibleSet ==
    pc = "agents" =>
        visible_agents =
            {o \in AgentIDs :
                LET dx == location[o][1] - location[idx][1]
                    dy == location[o][2] - location[idx][2]
                    bearing == 90 - Atan2Deg(dy, dx)
                IN  /\ o # idx
                    /\ \/ dx * dx + dy * dy <= 150 * 150
                       \/ /\ dx * dx + dy * dy <= ViewRange * ViewRange
                          /\ \E v \in -180 .. 180 :
                                /\ (v - (bearing - heading[idx])) % 360 = 0
                                /\ v <= ViewAngle
                                /\ 0 - v <= ViewAngle}

\* C12 witness: an observer with one agent 1.4 behind it, which it sees, and
\* one 2.0 behind it, which it does not
C12_SeenBehind ==
    /\ pc = "agents"
    /\ idx = 1
    /\ heading[1] = 0
    /\ location[1] = <<150, 250>>
    /\ location[3] = <<150, 110>>
    /\ location[2] = <<150, 50>>
    /\ visible_agents = {3}

\* C13: an agent.tick call that sends a message to an ID no agent has (one
\* message sent, no other agent's queue grown) drops it and the tick goes
\* on, to the next agent or to collision resolution
C13_UnknownTargetDropped ==
    [][(/\ pc = "agents"
        /\ sent' = sent + 1
        /\ \A a \in AgentIDs \ {idx} : message_queue_in'[a] = message_queue_in[a]) =>
          /\ pc' \in {"vision", "collision"}
          /\ result' = result]_vars

\* C14: when setup() is done no agent is at a position in a wall cell
C14_NoEmbeddedSpawn ==
    [][pc = "new" =>
         \A a \in AgentIDs : ~CollisionPoint(walls, location'[a][1], location'[a][2])]_vars

\* C15: every tick starts by appending the noise list, in order, to the
\* history; the history only ever grows at its end; and it holds, in the
\* order of the add_noise() calls, exactly the events added in earlier ticks
\* while the noise list holds exactly those added in the tick under way
C15_NoiseHistory ==
    /\ [](LET earlier == SelectSeq(emitted, LAMBDA c : c.at < tick_no)
              current == SelectSeq(emitted, LAMBDA c : c.at = tick_no)
          IN  /\ old_noises = [k \in 1 .. Len(earlier) |-> earlier[k].event]
              /\ noises = [k \in 1 .. Len(current) |-> current[k].event])
    /\ [][(pc = "idle" /\ pc' = "vision") => old_noises' = old_noises \o noises]_vars
    /\ [][/\ Len(old_noises') >= Len(old_noises)
          /\ SubSeq(old_noises', 1, Len(old_noises)) = old_noises]_vars

\* C15 witness: the history holds two events of the first tick, the first
\* added by the world and the second by an agent, and a third tick has begun
C15_TwoEventsKept ==
    /\ tick_no = 3
    /\ Len(old_noises) = 2
    /\ emitted[1].at = 1 /\ emitted[1].by = 0
    /\ emitted[2].at = 1 /\ emitted[2].by # 0
    /\ old_noises[1] # old_noises[2]

\* C16: the window's handlers leave the agents and the world's tick state
\* alone; the wall grid changes only by a left press handled while
\* is_editing holds, on a cell with 0 <= x < width and 0 <= y < height, which
\* becomes a wall; is_editing is false at first and only the E key flips it
C16_RendererWritesWallsOnly ==
    /\ [](handled.nr = 0 => ~is_editing)
    /\ [][/\ handled'.nr # handled.nr => UNCHANGED tick_state
          /\ walls' # walls =>
                /\ handled'.nr # handled.nr
                /\ handled'.handler = "on_mouse_press"
                /\ handled'.input = "LEFT"
                /\ is_editing
                /\ handled'.cell \in (0 .. MapW - 1) \X (0 .. MapH - 1)
                /\ walls' = walls \cup {handled'.cell}
          /\ is_editing' # is_editing =>
                /\ handled'.nr # handled.nr
                /\ handled'.handler = "on_key_press"
                /\ handled'.input = "E"]_vars

\* C16 witness: with the agents set up, a left press in editing mode has
\* made a wall of the cell (1, 1)
C16_WallDrawn ==
    /\ pc = "idle"
    /\ is_editing
    /\ handled.handler = "on_mouse_press"
    /\ handled.input = "LEFT"
    /\ handled.cell = <<1, 1>>
    /\ walls = {<<0, 0>>, <<1, 1>>}

\* C17: a world that from_file gives after to_file has the agents of the
\* saved world, as many and of the same class at each place; and from_file
\* gives a world
C17_RosterRoundTrip ==
    (saved.written /\ loaded.outcome # "none") =>
        /\ loaded.outcome = "world"
        /\ Len(loaded.agents) = Len(agents)
        /\ \A k \in 1 .. Len(agents) : loaded.agents[k] = agents[k]

\* C18: the phases of a tick come in the order roll-over and emission, the
\* agents' rounds (vision, then behaviour), collision resolution, noise
\* delivery, capture check, target check.  Collision resolution starts when
\* every agent has had its round and only it and the agents' rounds move an
\* agent; on_noise is called once per agent and tick, with the noise list of
\* that tick; the checks change their flags and counters in their own phase
C18_PhaseOrder ==
    [][/\ <<pc, pc'>> \in
             {<<"new", "idle">>, <<"idle", "vision">>, <<"vision", "agents">>,
              <<"agents", "vision">>, <<"agents", "collision">>,
              <<"collision", "noise">>, <<"noise", "capture">>,
              <<"capture", "target">>, <<"capture", "idle">>, <<"target", "idle">>}
       /\ pc' = "collision" => idx' = Len(agents) + 1
       /\ \A a \in AgentIDs :
             /\ location'[a] # location[a] =>
                   pc = "new" \/ (pc = "agents" /\ idx = a) \/ pc = "collision"
             /\ has_collided'[a] /\ ~has_collided[a] => pc = "collision"
             /\ heard'[a] = IF pc = "idle" THEN <<>>
                            ELSE IF pc = "noise" THEN <<noises>>
                            ELSE heard[a]
             /\ pc' \in {"vision", "agents", "collision", "noise"} => heard'[a] = <<>>
             /\ pc' \in {"capture", "target"} => heard'[a] = <<noises'>>
       /\ old_noises' # old_noises => pc = "idle"
       /\ is_captured' # is_captured => pc = "capture"
       /\ (\/ ticks_in_target' # ticks_in_target
           \/ ticks_since_target' # ticks_since_target
           \/ times_visited_target' # times_visited_target
           \/ reached_target' # reached_target) => pc = "target"]_vars

\* C18 witness: a tick has run through in which the first guard was pushed
\* off the wall and every agent got the two events of the tick in one call
C18_FullTick ==
    /\ Returned
    /\ has_collided[1]
    /\ Len(noises) = 2
    /\ \A a \in AgentIDs : heard[a] = <<noises>>

\* C19: the list of the k-th agent is made from where the agents before it
\* are after their behaviour callbacks of this tick and where it and the
\* agents after it were when the tick began, not from the places all of
\* them had when the tick began
C19_ReadLatest ==
    /\ [](pc = "agents" =>
            visible_agents =
               {o \in AgentIDs \ {idx} :
                   InView(tick_start[idx], heading[idx],
                          IF o < idx THEN location[o] ELSE tick_start[o])})
    /\ [][(pc = "agents" /\ pc' = "vision") =>
             \A a \in AgentIDs : a > idx => location'[a] = tick_start[a]]_vars

\* C19 witness: the second agent sees the first, which has just moved into
\* its cone and was out of its range when the tick began
C19_SeesTheMove ==
    /\ pc = "agents"
    /\ idx = 2
    /\ location[1] # tick_start[1]
    /\ 1 \in visible_agents
    /\ ~InView(tick_start[2], heading[2], tick_start[1])

\* C20: the world adds at most one event per tick, at the start of the
\* tick, stamped with time_ticks as it is then and placed on a cell with
\* 0 <= x <= width - 1 and 0 <= y <= height - 1; in a tick in which no agent
\* calls add_noise the noise list never holds more than one event
C20_OneAmbientEvent ==
    /\ [](LET ambient == SelectSeq(emitted, LAMBDA c : c.by = 0 /\ c.at = tick_no)
              own == SelectSeq(emitted, LAMBDA c : c.by # 0 /\ c.at = tick_no)
          IN  /\ Len(ambient) <= 1
              /\ Len(own) = 0 => Len(noises) <= 1)
    /\ [][(pc = "idle" /\ pc' = "vision") =>
             /\ Len(noises') <= 1
             /\ \A k \in 1 .. Len(noises') :
                   /\ noises'[k].time = time_ticks
                   /\ 0 <= noises'[k].location[1] /\ noises'[k].location[1] <= MapW - 1
                   /\ 0 <= noises'[k].location[2] /\ noises'[k].location[2] <= MapH - 1]_vars

\* C20 witness: the second tick has run through with one event in the noise
\* list, added by the world when time_ticks was 1, on the last cell
C20_EventOfSecondTick ==
    /\ Returned
    /\ tick_no = 2
    /\ time_ticks = 2
    /\ noises = <<[location |-> <<MapW - 1, MapH - 1>>, time |-> 1]>>
    /\ emitted[Len(emitted)].by = 0


\* C21: collision resolution applies the accumulated edge push once, and the
\* four corner probe points are the diagonal points around the position the
\* agent has after that push: every agent ends collision resolution where
\* the push followed by the corner snaps probed around the pushed position
\* puts it, with its collision flag set when an edge or such a corner hit
C21_ProbesAroundPushedPosition ==
    [][(pc = "collision" /\ pc' = "noise") =>
         \A a \in AgentIDs :
            LET h == AgentWidth \div 2
                c == Clamp(location[a])
                push == Push(walls, c[1], c[2], h)
                px == c[1] + push[1]
                py == c[2] + push[2]
                pushed == [loc |-> <<px, py>>,
                           hit |-> EdgeHit(walls, c[1], c[2], h), raised |-> FALSE]
                after == CornerSnaps(walls, pushed, Corners(px, py, h), 1, h)
            IN  ~after.raised =>
                    /\ location'[a] = after.loc
                    /\ has_collided'[a] = (has_collided[a] \/ after.hit)]_vars


\* C22: once a tick() call has returned True, every later call returns True
\* and time_ticks stays what it was, wherever the agents go in those calls;
\* and in a world without intruders every call returns True, the first
\* included, with time_ticks still 0
C22_TerminationAbsorbing ==
    /\ [][result = "True" => (result' = "True" /\ time_ticks' = time_ticks)]_vars
    /\ []((Returned /\ \A a \in AgentIDs : agents[a].base # "IntruderAgent") =>
             (result = "True" /\ time_ticks = 0))

\* C22 witness: the intruder won by dwelling 60 ticks, then left the target
\* uncaptured, and the three calls since have returned True with time_ticks
\* at the 59 calls that returned False
C22_StillOverAfterLeaving ==
    /\ Returned
    /\ result = "True"
    /\ tick_no = 63
    /\ time_ticks = 59
    /\ \E i \in Intruders :
          /\ ~is_captured[i]
          /\ ~InsideTarget(i)
          /\ ticks_in_target[i] = 0


\* C23: for every intruder, at every moment from its first target check on:
\* ticks_in_target and ticks_since_target are not both above 0; an intruder
\* with ticks_in_target above 0 has times_visited_target at least 1;
\* times_visited_target never goes down; and an intruder that no target
\* check has found inside the target radius has ticks_since_target and
\* times_visited_target at 0
C23_TargetCounters ==
    /\ [](\A i \in Intruders :
             /\ ~(ticks_in_target[i] > 0 /\ ticks_since_target[i] > 0)
             /\ ticks_in_target[i] > 0 => times_visited_target[i] >= 1
             /\ (inside_run[i] = 0 /\ outside_run[i] = 0) =>
                   (ticks_since_target[i] = 0 /\ times_visited_target[i] = 0))
    /\ [][\A i \in Intruders : times_visited_target'[i] >= times_visited_target[i]]_vars

\* C23 witness: an intruder that was inside the target and has now been
\* outside for two target checks, next to one the checks never found inside
C23_OutsideAfterAVisit ==
    /\ Returned
    /\ \E i \in Intruders :
          /\ outside_run[i] = 2
          /\ ticks_in_target[i] = 0
          /\ ticks_since_target[i] = 2
          /\ times_visited_target[i] = 1
    /\ \E i \in Intruders :
          /\ inside_run[i] = 0 /\ outside_run[i] = 0
          /\ tick_no > 2

====
